---- MODULE Spec2Model ----
(***************************************************************************)
(* SeiMCPClient (src/src/lib/sei-mcp-client.ts): the gateway client over   *)
(* the HTTP transport, its response cache and its rate limiter.            *)
(*                                                                         *)
(* Scheduling: JavaScript's single-threaded event loop.  A public method   *)
(* runs synchronously up to its first pending await (the /health probe or  *)
(* the JSON-RPC POST); the continuations of a settled promise run in FIFO  *)
(* order (microq) before any further event (a new call, close(), a clock   *)
(* tick, a network completion) is handled.                                 *)
(*                                                                         *)
(* Time: one clock unit is 30 000 ms, so cacheTTL (30 000 ms) is 1 and the *)
(* rate window (60 000 ms) is 2.                                           *)
(*                                                                         *)
(* Transport objects: the client creates one per connect().  Only the one  *)
(* it holds in this.transport can receive requests, so the model keeps the *)
(* session id of that one; a probe that completes on an object the client  *)
(* has dropped meanwhile sets a session id nobody reads.                   *)
(***************************************************************************)
EXTENDS Integers, Sequences, FiniteSets, Bags, TLC

\* ---------------------------------------------------------------- bounds
MaxCalls == 2              \* calls in progress at once
MaxTime == 2               \* last clock value
maxRequestsPerMinute == 2  \* config.rateLimit.maxRequestsPerMinute (the quota)
MaxQueryLen == 3           \* words in a query given to the QueryParser
MaxCloses == 3             \* calls of Transport.close() in a row
MaxSubmits == 3            \* accepted submissions of the chat form
RATE_LIMIT == 2            \* upstream requests per identifier and window (the quota)

\* ------------------------------------------------------- program constants
cacheTTL == 1              \* config.rateLimit.cacheTTL, 30 000 ms
windowMs == 2              \* RateLimiter.windowMs, 60 000 ms
timeout == 1               \* config.server.timeout, 30 000 ms
RATE_LIMIT_WINDOW == 1     \* part_007, 60 000 ms (the unit of the clock there)
CACHE_TTL == 5             \* part_007, 5 * 60 000 ms
CleanupSize == 100         \* part_007, geminiCache.size above which it is cleaned

Addrs == {"A", "B"}
NoTransport == "null"
NoKey == "undefined"
Keys == Addrs

ReadOps == {"get_balance"}
MutatingOps == {"transfer_sei", "transfer_erc20", "transfer_nft", "transfer_erc1155",
                "transfer_token", "approve_token_spending", "write_contract"}
UnsupportedOps == {"getWalletTransactions", "getTokenFlows", "getNFTHistory"}

\* The (operation, params) pairs the public methods hand to makeRequest.
PublicCalls == [op : ReadOps, arg : Addrs] \cup [op : MutatingOps, arg : {"A"}]

\* What the model keeps of such a pair: the seven mutating methods differ in the
\* operation name and the params they put in the POST body only, and are kept
\* as one; the three unsupported methods differ in the text of the error they
\* throw only, and are kept as one.
Shape(r) == IF r.op \in MutatingOps THEN [op |-> "mutating", arg |-> r.arg]
            ELSE IF r.op \in UnsupportedOps THEN [op |-> "unsupported", arg |-> r.arg]
            ELSE r

Requests == {Shape(r) : r \in PublicCalls}
NoRequest == [op |-> "none", arg |-> "none"]

\* Result payloads of a 2xx JSON-RPC body: an object, the number 0, and a body
\* with no `result` field (undefined).
Payloads == {"obj", "zero", "undefined"}
Truthy(v) == v \notin {"null", "zero", "undefined"}

\* Status lines of a non-2xx answer: response.status and response.statusText.
StatusLines == {<<500, "Internal Server Error">>, <<504, "Gateway Timeout">>}

\* result.error.message of a 2xx body with an `error` field ("" when it has none).
ServerMessages == {"execution reverted", ""}

\* What the downstream service answers to a POST: a 2xx body with a result, a
\* non-2xx status line, a 2xx body with an `error` field, or a fetch() that
\* rejects (text is then the message of the error it rejects with).
Responses ==
    [kind : {"result"}, data : Payloads, code : {200}, text : {"none"}]
    \cup {[kind |-> "status", data |-> "none", code |-> l[1], text |-> l[2]] :
              l \in StatusLines}
    \cup [kind : {"rpcError"}, data : {"none"}, code : {200}, text : ServerMessages]
    \cup [kind : {"network"}, data : {"none"}, code : {0}, text : {"fetch failed"}]

\* What the caller of a public method observes: the value returned (msg says
\* where it came from) or the error thrown (kind is its class, msg the throw
\* statement it comes from, text the part of its message that statement
\* interpolates, statusCode 0 an undefined statusCode).
NoResult == [kind |-> "none", msg |-> "none", statusCode |-> 0, data |-> "none",
             text |-> "none"]
Ok(d, from) == [kind |-> "ok", msg |-> from, statusCode |-> 0, data |-> d, text |-> "none"]
ErrOf(k, m, sc, t) == [kind |-> k, msg |-> m, statusCode |-> sc, data |-> "none", text |-> t]
Err(k, m, sc) == ErrOf(k, m, sc, "none")
NoOutcome == [of |-> NoRequest, result |-> NoResult]

\* A call in progress: the arguments of its makeRequest and the await it is
\* suspended at ("awaitInit": ensureConnected's await of the attempt it
\* started; "awaitJoin": its await of an attempt found in flight;
\* "awaitFetch": Transport.request's await of the POST).
CallAt(r, k, at) == [req |-> r, key |-> k, at |-> at]

VARIABLES
    now,          \* Date.now()
    transport,    \* SeiMCPClient.transport: NoTransport or "object"
    connected,    \* SeiMCPClient.connected
    connecting,   \* SeiMCPClient.connecting: "null" or the state of the promise held
    sessionId,    \* this.transport.sessionId is set (FALSE with no transport)
    probing,      \* a GET /health is in flight
    waiters,      \* the calls awaiting the pending connect promise, in await order
    microq,       \* the continuations ready to run, in order
    inflight,     \* the calls whose POST is on the wire (a bag)
    cache,        \* SeiMCPClient.cache
    requests,     \* RateLimiter.requests
    outcome,      \* what the step just taken returned or threw, and to which call
    seen,         \* how ensureConnected() ended for the calls resumed so far from
                  \* the connect promise being drained
    util,         \* the utility function applied last, its argument and its result
    chat,         \* the state of the useCustomChat hook (src/unnamed/part_000)
    gemini        \* the module state of handleGeminiQuery (src/unnamed/part_007)

vars == <<now, transport, connected, connecting, sessionId, probing, waiters, microq,
          inflight, cache, requests, outcome, seen, util, chat, gemini>>

\* ----------------------------------------------------------- RateLimiter
\* canMakeRequest() drops the timestamps that left the window ...
Prune(reqs, t) == SelectSeq(reqs, LAMBDA time : t - time < windowMs)

\* A faulty canMakeRequest(): it admits every call.
canMakeRequest_Always(reqs, t) == TRUE

\* A faulty canMakeRequest(): admits while no more than the quota remain.
canMakeRequest_AtQuota(reqs, t) == Len(Prune(reqs, t)) <= maxRequestsPerMinute

\* ... and admits while fewer than the quota remain.
canMakeRequest(reqs, t) == Len(Prune(reqs, t)) < maxRequestsPerMinute

recordRequest(reqs, t) == Append(reqs, t)

\* ----------------------------------------------------------------- cache
NoEntry == [data |-> "none", timestamp |-> -1]

\* A faulty expiry test: the subtraction reversed, so no entry ever expires.
isExpired_Reversed(entry, t) == entry.timestamp - t > cacheTTL

isExpired(entry, t) == t - entry.timestamp > cacheTTL

\* getCachedData's return value ("null" is a miss) ...
getCachedData(c, k, t) ==
    IF c[k] = NoEntry THEN "null"
    ELSE IF isExpired(c[k], t) THEN "null"
    ELSE c[k].data

\* ... and the cache it leaves: an expired entry is deleted.
getCachedDataDeletes(c, k, t) ==
    IF c[k] # NoEntry /\ isExpired(c[k], t) THEN [c EXCEPT ![k] = NoEntry] ELSE c

setCachedData(c, k, d, t) == [c EXCEPT ![k] = [data |-> d, timestamp |-> t]]

EmptyCache == [k \in Keys |-> NoEntry]

clearCache(c, k) == IF k # NoKey THEN [c EXCEPT ![k] = NoEntry] ELSE EmptyCache

\* No utility function applied.
NoUtil == [fn |-> "none", input |-> "none", output |-> "none"]

\* useCustomChat after its first render: useState([]), useState(''),
\* useState(false), useRef(null).  `messages` is the length of the list, `calls`
\* the handleSubmit invocations accepted so far, each by the await it is
\* suspended at ("awaitFetch", "awaitRead") or "returned"; abortControllerRef
\* is 0 for null, else the invocation whose AbortController it holds.
ChatStart ==
    [messages |-> 0, input |-> "", isLoading |-> FALSE, abortControllerRef |-> 0,
     calls |-> <<>>]

\* The queries given to handleGeminiQuery and the identifiers of its callers.
GeminiQueries == {"q1", "q2"}
Identifiers == {"default", "s1"}
NoCached == [response |-> "null", timestamp |-> -1]
NoWindow == [requests |-> 0, resetTime |-> -1]
NoAnswer == [identifier |-> "none", answer |-> "none"]

\* Map.prototype.get (with `none` for undefined), set and delete, a Map being
\* the function from its keys to their values.
mapGet(map, key, none) == IF key \in DOMAIN map THEN map[key] ELSE none

mapSet(map, key, value) ==
    [k \in DOMAIN map \cup {key} |-> IF k = key THEN value ELSE map[k]]

mapDelete(map, key) == [k \in DOMAIN map \ {key} |-> map[k]]

\* The module of handleGeminiQuery when loaded: clock at 0 (one unit is
\* 60 000 ms), geminiCache and rateLimitMap empty.  `pending` is the bag of the
\* queries whose fetch is on the wire, `issued` counts the upstream requests of
\* an identifier since its rate window was created, `last` is what the call
\* just made did.
GeminiStart ==
    [now |-> 0, geminiCache |-> <<>>, rateLimitMap |-> <<>>, pending |-> EmptyBag,
     issued |-> <<>>, last |-> NoAnswer]

\* ------------------------------------------------------------------ Init
Init ==
    /\ now = 0
    /\ transport = NoTransport
    /\ connected = FALSE
    /\ connecting = "null"
    /\ sessionId = FALSE
    /\ probing = FALSE
    /\ waiters = <<>>
    /\ microq = <<>>
    /\ inflight = EmptyBag
    /\ cache = EmptyCache
    /\ requests = <<>>
    /\ outcome = NoOutcome
    /\ seen = NoResult
    /\ util = NoUtil
    /\ chat = ChatStart
    /\ gemini = GeminiStart

\* ------------------------------------------------------ calls in progress
InProgress == Len(waiters) + Len(microq) + BagCardinality(inflight)

\* A new call is issued by an event handler, so never in the middle of a run
\* of continuations.
CanIssue ==
    /\ microq = <<>>
    /\ InProgress < MaxCalls

\* The call made with request r returns or throws `o` to its caller.
Done(r, o) == outcome' = [of |-> r, result |-> o]

\* ------------------------------------------------------- HTTPMCPTransport
\* A faulty request(): the catch wraps whatever was thrown, without rethrowing
\* an MCPRequestError as it is.
TransportResult_AllWrapped(r) ==
    IF r.kind = "result"
    THEN Ok(r.data, "wire")
    ELSE ErrOf("MCPRequestError", "network", 0, r.text)

\* request(), from the response on: the value returned or the error thrown.
TransportResult(r) ==
    CASE r.kind = "status"   -> ErrOf("MCPRequestError", "status", r.code, r.text)
      [] r.kind = "rpcError" -> ErrOf("MCPRequestError", "rpcError", 0,
                                      IF r.text # "" THEN r.text ELSE "MCP request error")
      [] r.kind = "network"  -> ErrOf("MCPRequestError", "network", 0, r.text)
      [] OTHER               -> Ok(r.data, "wire")

\* A faulty close(): it leaves this.sessionId as it is.
transportClose_KeepsSession(session) == session

\* HTTPMCPTransport.close(): this.sessionId = null, whatever it was.  The
\* session is modelled by whether there is one.
transportClose(session) == FALSE

\* ----------------------------------------------------------- SeiMCPClient
\* The catch of connect(): what it throws for the error it caught.
connectCatch(error) == error

\* A faulty catch of makeRequest(): it throws a new MCPRequestError made from
\* the one it caught.
makeRequestCatch_Wrapped(error) ==
    ErrOf("MCPRequestError", "network", 0, "MCP request failed")

\* The catch of makeRequest() around Transport.request(): what it throws for
\* the error it caught.
makeRequestCatch(error) == error

\* What the caller of makeRequest() gets for the result o of the lines after
\* ensureConnected(): an error thrown by Transport.request() passes the catch.
Caught(o) ==
    IF o.kind = "ok" \/ o.msg = "notEstablished" THEN o ELSE makeRequestCatch(o)

\* A faulty ensureConnected(): without the check of this.connecting.
ensureConnected_NoJoin(isConnected, tr, promise) ==
    IF isConnected /\ tr # NoTransport THEN "ready" ELSE "connect"

\* ensureConnected(): "ready" returns at once, "join" awaits the attempt in
\* flight, "connect" starts one.
ensureConnected(isConnected, tr, promise) ==
    IF isConnected /\ tr # NoTransport THEN "ready"
    ELSE IF promise # "null" THEN "join"
    ELSE "connect"

\* A faulty Transport.request(): without its test of this.sessionId.
AfterConnect_NoSessionCheck(isConnected, tr, session) ==
    IF ~isConnected \/ tr = NoTransport
    THEN Err("MCPConnectionError", "notEstablished", 0)
    ELSE Ok("none", "sent")

\* makeRequest() once ensureConnected() has returned: the connection check and
\* Transport.request() up to its POST ("sent": the POST is on the wire).
AfterConnect(isConnected, tr, session) ==
    IF ~isConnected \/ tr = NoTransport
    THEN Err("MCPConnectionError", "notEstablished", 0)
    ELSE IF ~session
    THEN Err("MCPConnectionError", "notConnected", 0)
    ELSE Ok("none", "sent")

\* The call (r, k) goes on from a returned ensureConnected().
Dispatch(r, k) ==
    LET o == AfterConnect(connected, transport, sessionId) IN
    IF o.kind = "ok"
    THEN /\ inflight' = inflight (+) SetToBag({CallAt(r, k, "awaitFetch")})
         /\ outcome' = NoOutcome
    ELSE /\ inflight' = inflight
         /\ Done(r, Caught(o))

\* A faulty rejection: recordRequest() called before the check's answer is used.
RateLimited_Recorded(r) ==
    /\ requests' = recordRequest(Prune(requests, now), now)
    /\ Done(r, Err("MCPRequestError", "rateLimit", 0))
    /\ UNCHANGED <<transport, sessionId, connecting, probing, waiters, microq, inflight>>

\* makeRequest() when canMakeRequest() has answered false: the timestamps are
\* as canMakeRequest() left them and MCPRequestError is thrown.
RateLimited(r) ==
    /\ requests' = Prune(requests, now)
    /\ Done(r, Err("MCPRequestError", "rateLimit", 0))
    /\ UNCHANGED <<transport, sessionId, connecting, probing, waiters, microq, inflight>>

\* makeRequest(operation, params, cacheKey) up to its first pending await.
makeRequest(r, k) ==
    LET hit  == IF k # NoKey THEN getCachedData(cache, k, now) ELSE "null"
        path == ensureConnected(connected, transport, connecting)
    IN
    /\ CanIssue
    /\ cache' = IF k # NoKey THEN getCachedDataDeletes(cache, k, now) ELSE cache
    /\ UNCHANGED <<now, connected, seen, util, chat, gemini>>
    /\ IF Truthy(hit)
       THEN /\ Done(r, Ok(hit, "cache"))
            /\ UNCHANGED <<requests, transport, sessionId, connecting, probing, waiters,
                           microq, inflight>>
       ELSE IF ~canMakeRequest(requests, now)
       THEN RateLimited(r)
       ELSE /\ requests' = recordRequest(Prune(requests, now), now)
            /\ CASE path = "ready" ->
                     /\ Dispatch(r, k)
                     /\ UNCHANGED <<transport, sessionId, connecting, probing, waiters,
                                    microq>>
                 [] path = "join" ->
                     /\ IF connecting = "pending"
                        THEN /\ waiters' = Append(waiters, CallAt(r, k, "awaitJoin"))
                             /\ microq' = microq
                        ELSE /\ waiters' = waiters
                             /\ microq' = Append(microq,
                                    [call |-> CallAt(r, k, "awaitJoin"),
                                     result |-> connecting])
                     /\ outcome' = NoOutcome
                     /\ UNCHANGED <<transport, sessionId, connecting, probing, inflight>>
                 [] OTHER ->
                     /\ connecting' = "pending"
                     /\ transport' = "object"
                     /\ sessionId' = FALSE
                     /\ probing' = TRUE
                     /\ waiters' = Append(waiters, CallAt(r, k, "awaitInit"))
                     /\ outcome' = NoOutcome
                     /\ UNCHANGED <<microq, inflight>>

\* A faulty public method: every call passes a cacheKey built from its address.
CacheKeyOf_Address(r) == r.arg

\* The cacheKey argument a public method passes to makeRequest.
CacheKeyOf(r) == NoKey

\* getWalletBalance, transferSei, ..., writeContract.
Call(r) == makeRequest(r, CacheKeyOf(r))

\* getWalletTransactions, getTokenFlows, getNFTHistory: what they throw.
UnsupportedResult(op) == Err("Error", "unsupported", 0)

\* A faulty unsupported method: it hands its operation to makeRequest.
Unsupported_Requested(op) == makeRequest(Shape([op |-> op, arg |-> "A"]), NoKey)

\* They return at once, whatever else is in progress.
Unsupported(op) ==
    /\ microq = <<>>
    /\ Done(Shape([op |-> op, arg |-> "A"]), UnsupportedResult(op))
    /\ UNCHANGED <<now, transport, connected, connecting, sessionId, probing, waiters,
                   microq, inflight, cache, requests, seen, util, chat, gemini>>

\* The connect promise settles: its awaiters become ready, in await order.
Settle(result) == [i \in 1..Len(waiters) |-> [call |-> waiters[i], result |-> result]]

\* GET /health answers 200: HTTPMCPTransport.connect() sets the session id of
\* its transport object and SeiMCPClient.connect() sets connected; the promise
\* resolves.
ProbeOk ==
    /\ probing
    /\ microq = <<>>
    /\ sessionId' = (transport # NoTransport)
    /\ connected' = TRUE
    /\ connecting' = "resolved"
    /\ probing' = FALSE
    /\ microq' = Settle("resolved")
    /\ waiters' = <<>>
    /\ outcome' = NoOutcome
    /\ UNCHANGED <<now, transport, inflight, cache, requests, seen, util, chat, gemini>>

\* A faulty connect(): its catch rethrows without dropping the transport.
ProbeFail_KeepsTransport ==
    /\ probing
    /\ microq = <<>>
    /\ connected' = FALSE
    /\ connecting' = "rejected"
    /\ probing' = FALSE
    /\ microq' = Settle("rejected")
    /\ waiters' = <<>>
    /\ outcome' = NoOutcome
    /\ UNCHANGED <<now, transport, sessionId, inflight, cache, requests, seen, util, chat, gemini>>

\* GET /health fails: HTTPMCPTransport.connect() throws MCPConnectionError and
\* SeiMCPClient.connect()'s catch drops the transport; the promise rejects.
ProbeFail ==
    /\ probing
    /\ microq = <<>>
    /\ transport' = NoTransport
    /\ sessionId' = FALSE
    /\ connected' = FALSE
    /\ connecting' = "rejected"
    /\ probing' = FALSE
    /\ microq' = Settle("rejected")
    /\ waiters' = <<>>
    /\ outcome' = NoOutcome
    /\ UNCHANGED <<now, inflight, cache, requests, seen, util, chat, gemini>>

\* What ensureConnected() leaves in this.connecting when its await returns or
\* throws: the initiator clears it after a resolved await only.
AfterAwait(promise, initiator, result) ==
    IF initiator /\ result = "resolved" THEN "null" ELSE promise

\* A faulty continuation: the call that started a failed attempt starts a
\* second one instead of throwing.
Resume_RetriesProbe ==
    /\ microq # <<>>
    /\ LET e == Head(microq)
           c == e.call
           retry == e.result = "rejected" /\ c.at = "awaitInit"
           o == IF e.result = "rejected"
                THEN connectCatch(Err("MCPConnectionError", "health", 0))
                ELSE Caught(AfterConnect(connected, transport, sessionId))
       IN
       /\ microq' = Tail(microq)
       /\ connecting' = IF retry THEN "pending"
                        ELSE AfterAwait(connecting, c.at = "awaitInit", e.result)
       /\ probing' = (probing \/ retry)
       /\ transport' = IF retry THEN "object" ELSE transport
       /\ waiters' = IF retry THEN Append(waiters, c) ELSE waiters
       /\ IF retry
          THEN /\ inflight' = inflight
               /\ outcome' = NoOutcome
          ELSE IF o.kind = "ok"
          THEN /\ inflight' = inflight (+) SetToBag({CallAt(c.req, c.key, "awaitFetch")})
               /\ outcome' = NoOutcome
          ELSE /\ inflight' = inflight
               /\ Done(c.req, o)
       /\ seen' = IF Tail(microq) = <<>> THEN NoResult ELSE o
    /\ UNCHANGED <<now, connected, sessionId, cache, requests, util, chat, gemini>>

\* The next continuation of the settled connect promise runs.
Resume ==
    /\ microq # <<>>
    /\ LET e == Head(microq)
           c == e.call
           o == IF e.result = "rejected"
                THEN connectCatch(Err("MCPConnectionError", "health", 0))
                ELSE Caught(AfterConnect(connected, transport, sessionId))
       IN
       /\ microq' = Tail(microq)
       /\ connecting' = AfterAwait(connecting, c.at = "awaitInit", e.result)
       /\ IF o.kind = "ok"
          THEN /\ inflight' = inflight (+) SetToBag({CallAt(c.req, c.key, "awaitFetch")})
               /\ outcome' = NoOutcome
          ELSE /\ inflight' = inflight
               /\ Done(c.req, o)
       /\ seen' = IF Tail(microq) = <<>> THEN NoResult ELSE o
    /\ UNCHANGED <<now, transport, connected, sessionId, probing, waiters, cache,
                   requests, util, chat, gemini>>

\* A faulty makeRequest(): setCachedData() in a finally, reached on a throw too.
StoresResult_Always(o, k) == k # NoKey

\* makeRequest() reaches setCachedData() when Transport.request() has returned
\* and a cacheKey was passed.
StoresResult(o, k) == o.kind = "ok" /\ k # NoKey

\* The POST of call c completes with response r.
Respond(c, r) ==
    /\ BagIn(c, inflight)
    /\ microq = <<>>
    /\ inflight' = inflight (-) SetToBag({c})
    /\ Done(c.req, Caught(TransportResult(r)))
    /\ cache' = IF StoresResult(TransportResult(r), c.key)
                THEN setCachedData(cache, c.key, TransportResult(r).data, now)
                ELSE cache
    /\ UNCHANGED <<now, transport, connected, connecting, sessionId, probing, waiters,
                   microq, requests, seen, util, chat, gemini>>

\* disconnect(): what it leaves of transport, sessionId and connected.
disconnect(tr, session, isConnected) ==
    IF tr # NoTransport
    THEN <<NoTransport, transportClose(session), FALSE>>
    ELSE <<tr, session, isConnected>>

\* close(): disconnect(), then clearCache().
Close ==
    /\ microq = <<>>
    /\ LET d == disconnect(transport, sessionId, connected) IN
       /\ transport' = d[1]
       /\ sessionId' = d[2]
       /\ connected' = d[3]
    /\ cache' = clearCache(cache, NoKey)
    /\ outcome' = NoOutcome
    /\ UNCHANGED <<now, connecting, probing, waiters, microq, inflight, requests, seen, util, chat, gemini>>

\* clearCache(key?)
ClearCache(k) ==
    /\ microq = <<>>
    /\ cache' = clearCache(cache, k)
    /\ outcome' = NoOutcome
    /\ UNCHANGED <<now, transport, connected, connecting, sessionId, probing, waiters,
                   microq, inflight, requests, seen, util, chat, gemini>>

\* The clock advances.
Tick ==
    /\ microq = <<>>
    /\ now < MaxTime
    /\ now' = now + 1
    /\ outcome' = NoOutcome
    /\ UNCHANGED <<transport, connected, connecting, sessionId, probing, waiters, microq,
                   inflight, cache, requests, seen, util, chat, gemini>>

InflightCalls == {CallAt(r, k, "awaitFetch") : r \in Requests, k \in Keys \cup {NoKey}}

Next ==
    \/ \E r \in Requests : Call(r)
    \/ \E op \in UnsupportedOps : Unsupported(op)
    \/ ProbeOk
    \/ ProbeFail
    \/ Resume
    \/ \E c \in InflightCalls, r \in Responses : Respond(c, r)
    \/ Close
    \/ \E k \in Keys \cup {NoKey} : ClearCache(k)
    \/ Tick

Spec == Init /\ [][Next]_vars

\* ------------------------------------------- makeRequest with a cacheKey
\* No public method passes makeRequest its cacheKey. The cache is exercised by
\* calling makeRequest with one for the reads, under the key of the address
\* (the keys clearWalletCache deletes are built from the address alone); the
\* mutating methods are called as they are.
ReadRequests == {r \in Requests : r.op \in ReadOps}

MutatingRequests == {r \in Requests : r.op = "mutating"}

KeyedCall(r) == makeRequest(r, r.arg)

KeyedNext ==
    \/ \E r \in ReadRequests : KeyedCall(r)
    \/ \E r \in MutatingRequests : Call(r)
    \/ \E op \in UnsupportedOps : Unsupported(op)
    \/ ProbeOk
    \/ ProbeFail
    \/ Resume
    \/ \E c \in InflightCalls, r \in Responses : Respond(c, r)
    \/ Close
    \/ \E k \in Keys \cup {NoKey} : ClearCache(k)
    \/ Tick

KeyedSpec == Init /\ [][KeyedNext]_vars

\* ------------------------------------------------------------- utilities
clientVars == <<now, transport, connected, connecting, sessionId, probing, waiters,
                microq, inflight, cache, requests, outcome, seen>>

\* Error.message of an error of the model, as the pieces its throw statement
\* concatenates.
Message(e) ==
    CASE e.msg = "rateLimit"      -> <<"Rate limit exceeded. Please try again later.">>
      [] e.msg = "status"         -> <<"MCP server request failed: ", e.text>>
      [] e.msg = "rpcError"       -> <<e.text>>
      [] e.msg = "network"        -> <<"MCP request failed: ", e.text>>
      [] e.msg = "health"         -> <<"Failed to connect to MCP server at ">>
      [] e.msg = "notEstablished" -> <<"Failed to establish MCP server connection">>
      [] e.msg = "notConnected"   -> <<"Not connected to MCP server">>
      [] e.msg = "timedOut"       -> <<"MCP request timed out">>
      [] OTHER                    -> <<"is not yet implemented in the official Sei MCP server">>

\* String.prototype.toLowerCase on the strings of the model.
toLowerCase(str) ==
    CASE str = "Rate limit exceeded. Please try again later."
            -> "rate limit exceeded. please try again later."
      [] str = "MCP server request failed: " -> "mcp server request failed: "
      [] str = "MCP request failed: " -> "mcp request failed: "
      [] str = "MCP request error" -> "mcp request error"
      [] str = "MCP request timed out" -> "mcp request timed out"
      [] str = "Internal Server Error" -> "internal server error"
      [] str = "Gateway Timeout" -> "gateway timeout"
      [] str = "Failed to connect to MCP server at " -> "failed to connect to mcp server at "
      [] str = "Failed to establish MCP server connection"
            -> "failed to establish mcp server connection"
      [] str = "Not connected to MCP server" -> "not connected to mcp server"
      [] str = "is not yet implemented in the official Sei MCP server"
            -> "is not yet implemented in the official sei mcp server"
      [] str = "Wallet" -> "wallet"
      [] str = "USDC" -> "usdc"
      [] str = "NFT" -> "nft"
      [] str = "0x52908400098527886E0F7030069857D2E4169EE7"
            -> "0x52908400098527886e0f7030069857d2e4169ee7"
      [] str = "0x52908400098527886E0F" -> "0x52908400098527886e0f"
      [] OTHER -> str

\* String.prototype.includes on the strings of the model and the words
\* isRecoverableError and classifyIntent look for (case-sensitive, as includes
\* is): the pairs <<str, word>> where word is a substring of str.
includes(str, word) ==
    <<str, word>> \in {<<"rate limit exceeded. please try again later.", "rate limit">>,
                       <<"gateway timeout", "timeout">>,
                       <<"temporary outage", "temporary">>,
                       <<"wallet", "wallet">>,
                       <<"holdings", "holdings">>,
                       <<"token", "token">>,
                       <<"inflow", "inflow">>,
                       <<"inflow", "flow">>,
                       <<"usdc", "usdc">>,
                       <<"dragonswap", "dragonswap">>,
                       <<"nft", "nft">>,
                       <<"tx", "tx">>,
                       <<"sei1qy352eufqy352eufqy352eufqy352eufqy352e", "sei">>,
                       <<"sei1zg69v7yszg69v7yszg69v7yszg69v7yszg69v7", "sei">>,
                       <<"sei1qy352euf", "sei">>,
                       <<"0x52908400098527886e0f7030069857d2e4169ee7", "0x">>,
                       <<"0xde709f2102306220921060314715629080e2fb77", "0x">>,
                       <<"0x52908400098527886e0f", "0x">>}

\* A faulty isRecoverableError: the message is searched without toLowerCase().
isRecoverableError_CaseSensitive(e) ==
    IF e.kind = "MCPTimeoutError" THEN TRUE
    ELSE IF e.kind = "MCPConnectionError" THEN TRUE
    ELSE IF e.kind = "MCPRequestError"
    THEN \E i \in 1..Len(Message(e)) :
            \/ includes(Message(e)[i], "rate limit")
            \/ includes(Message(e)[i], "temporary")
            \/ includes(Message(e)[i], "timeout")
    ELSE FALSE

\* ErrorUtils.isRecoverableError
isRecoverableError(e) ==
    IF e.kind = "MCPTimeoutError" THEN TRUE
    ELSE IF e.kind = "MCPConnectionError" THEN TRUE
    ELSE IF e.kind = "MCPRequestError"
    THEN \E i \in 1..Len(Message(e)) :
            \/ includes(toLowerCase(Message(e)[i]), "rate limit")
            \/ includes(toLowerCase(Message(e)[i]), "temporary")
            \/ includes(toLowerCase(Message(e)[i]), "timeout")
    ELSE FALSE

\* The errors isRecoverableError is applied to: those the client throws, an
\* MCPTimeoutError, and a JSON-RPC error whose server message says "temporary".
ErrorInputs ==
    {TransportResult(r) : r \in {x \in Responses : x.kind # "result"}}
    \cup {Err("MCPRequestError", "rateLimit", 0),
          ErrOf("MCPRequestError", "rpcError", 0, "temporary outage"),
          Err("MCPConnectionError", "health", 0),
          Err("MCPConnectionError", "notEstablished", 0),
          Err("MCPConnectionError", "notConnected", 0),
          Err("MCPTimeoutError", "timedOut", 0)}
    \cup {UnsupportedResult(op) : op \in UnsupportedOps}

IsRecoverable ==
    /\ util = NoUtil
    /\ \E e \in ErrorInputs :
          util' = [fn |-> "isRecoverableError", input |-> e,
                   output |-> isRecoverableError(e)]
    /\ UNCHANGED <<clientVars, chat, gemini>>

\* ---------------------------------------------------------- QueryParser
\* A query is a sequence of words separated by blanks.  The words of the model:
\* keywords as a user writes them, two strings of "0x" and 40 hex digits, two
\* of "sei1" and 38 characters of [a-z0-9], and one of each prefix too short to
\* be an address.
QueryWords ==
    {"Wallet", "holdings", "token", "inflow", "USDC", "dragonswap", "NFT", "tx",
     "0x52908400098527886E0F7030069857D2E4169EE7",
     "0xde709f2102306220921060314715629080e2fb77",
     "sei1qy352eufqy352eufqy352eufqy352eufqy352e",
     "sei1zg69v7yszg69v7yszg69v7yszg69v7yszg69v7",
     "0x52908400098527886E0F",
     "sei1qy352euf"}

Queries == UNION {[1..n -> QueryWords] : n \in 0..MaxQueryLen}

\* The two patterns of extractWalletAddress.
seiPattern == "/sei1[a-z0-9]{38,58}/"

evmPattern == "/0x[a-fA-F0-9]{40}/"

\* word.match(pattern) for a word of the model: the matched text, "null"
\* without a match.
wordMatch(word, pattern) ==
    IF \/ /\ pattern = seiPattern
          /\ word \in {"sei1qy352eufqy352eufqy352eufqy352eufqy352e",
                        "sei1zg69v7yszg69v7yszg69v7yszg69v7yszg69v7"}
       \/ /\ pattern = evmPattern
          /\ word \in {"0x52908400098527886E0F7030069857D2E4169EE7",
                        "0xde709f2102306220921060314715629080e2fb77"}
    THEN word ELSE "null"

\* query.match(pattern) for a pattern that matches no blank: the leftmost match
\* lies in the first word that has one.
match(query, pattern) ==
    LET hits == {i \in 1..Len(query) : wordMatch(query[i], pattern) # "null"}
    IN  IF hits = {} THEN "null"
        ELSE wordMatch(query[CHOOSE i \in hits : \A j \in hits : i <= j], pattern)

\* A faulty extractWalletAddress: the 0x pattern is tried before the sei1 one.
extractWalletAddress_EvmFirst(query) ==
    LET seiMatch == match(query, seiPattern)
        evmMatch == match(query, evmPattern)
    IN  IF evmMatch # "null" THEN evmMatch
        ELSE IF seiMatch # "null" THEN seiMatch
        ELSE "null"

\* QueryParser.extractWalletAddress
extractWalletAddress(query) ==
    LET seiMatch == match(query, seiPattern)
        evmMatch == match(query, evmPattern)
    IN  IF seiMatch # "null" THEN seiMatch
        ELSE IF evmMatch # "null" THEN evmMatch
        ELSE "null"

\* query.toLowerCase().includes(keyword), for a keyword without a blank.
queryIncludes(query, keyword) ==
    \E i \in 1..Len(query) : includes(toLowerCase(query[i]), keyword)

\* A faulty classifyIntent: the NFT keywords are tested before the wallet ones.
classifyIntent_NftFirst(query) ==
    LET has(keyword) == queryIncludes(query, keyword)
        symbol == has("usdc") \/ has("sei") \/ has("weth") \/ has("$")
    IN  IF has("nft") \/ has("collection") \/ has("#") THEN "nft_history"
        ELSE IF has("wallet") \/ has("balance") \/ has("holdings") THEN "wallet_analysis"
        ELSE IF has("token") /\ (has("flow") \/ has("trading") \/ has("movements"))
        THEN "token_flow"
        ELSE IF /\ has("flow") \/ has("movements") \/ has("inflow") \/ has("outflow")
                /\ symbol
        THEN "token_flow"
        ELSE IF (has("dragonswap") \/ has("astroport") \/ has("dex")) /\ symbol
        THEN "token_flow"
        ELSE IF has("transaction") \/ has("tx") \/ has("0x") THEN "transaction_explain"
        ELSE "general"

\* QueryParser.classifyIntent
classifyIntent(query) ==
    LET has(keyword) == queryIncludes(query, keyword)
        symbol == has("usdc") \/ has("sei") \/ has("weth") \/ has("$")
    IN  IF has("wallet") \/ has("balance") \/ has("holdings") THEN "wallet_analysis"
        ELSE IF has("token") /\ (has("flow") \/ has("trading") \/ has("movements"))
        THEN "token_flow"
        ELSE IF /\ has("flow") \/ has("movements") \/ has("inflow") \/ has("outflow")
                /\ symbol
        THEN "token_flow"
        ELSE IF (has("dragonswap") \/ has("astroport") \/ has("dex")) /\ symbol
        THEN "token_flow"
        ELSE IF has("nft") \/ has("collection") \/ has("#") THEN "nft_history"
        ELSE IF has("transaction") \/ has("tx") \/ has("0x") THEN "transaction_explain"
        ELSE "general"

\* close() called `times` times in a row on a transport: the session it leaves.
RECURSIVE closeTimes(_, _)
closeTimes(session, times) ==
    IF times = 0 THEN session ELSE closeTimes(transportClose(session), times - 1)

TransportClose ==
    /\ util = NoUtil
    /\ \E session \in BOOLEAN, times \in 1..MaxCloses :
          util' = [fn |-> "close", input |-> [session |-> session, times |-> times],
                   output |-> closeTimes(session, times)]
    /\ UNCHANGED <<clientVars, chat, gemini>>

ExtractWalletAddress ==
    /\ util = NoUtil
    /\ \E query \in Queries :
          util' = [fn |-> "extractWalletAddress", input |-> query,
                   output |-> extractWalletAddress(query)]
    /\ UNCHANGED <<clientVars, chat, gemini>>

ClassifyIntent ==
    /\ util = NoUtil
    /\ \E query \in Queries :
          util' = [fn |-> "classifyIntent", input |-> query,
                   output |-> classifyIntent(query)]
    /\ UNCHANGED <<clientVars, chat, gemini>>

UtilNext ==
    \/ IsRecoverable
    \/ ExtractWalletAddress
    \/ ClassifyIntent
    \/ TransportClose

\* The utilities are static and keep no state: a behaviour is one application of
\* one of them to one input.
UtilSpec == Init /\ [][UtilNext]_vars

\* -------------------------------------------------------- useCustomChat
otherThanChat == <<clientVars, util, gemini>>

\* What the user types into the form.
Inputs == {"", " ", "hi"}

\* String.prototype.trim on the inputs of the model.
trim(str) == IF str = " " THEN "" ELSE str

\* The ways `await fetch('/api/chat')` ends: a 2xx response with a body, a
\* non-2xx response, a 2xx response without a body, a rejection (network).
FetchOutcomes == {"ok", "notOk", "noBody", "rejected"}

handleInputChange(value) ==
    /\ chat' = [chat EXCEPT !.input = value]
    /\ UNCHANGED otherThanChat

\* handleSubmit up to `await fetch(...)`; a submission with a blank input or
\* made while isLoading returns at once and changes nothing.
handleSubmit ==
    /\ trim(chat.input) # ""
    /\ ~chat.isLoading
    /\ Len(chat.calls) < MaxSubmits
    /\ chat' = [chat EXCEPT !.messages = @ + 1,
                            !.input = "",
                            !.isLoading = TRUE,
                            !.abortControllerRef = Len(chat.calls) + 1,
                            !.calls = Append(@, "awaitFetch")]
    /\ UNCHANGED otherThanChat

\* The catch and the finally of handleSubmit, for invocation id.
catchFinally(c, id) ==
    [c EXCEPT !.isLoading = FALSE, !.abortControllerRef = 0, !.calls[id] = "returned"]

\* `await fetch(...)` of invocation id settles: on a 2xx response with a body
\* the assistant message is added to the list the invocation built and the
\* reading starts; anything else is thrown into the catch.
FetchSettles(id, how) ==
    /\ id \in 1..Len(chat.calls)
    /\ chat.calls[id] = "awaitFetch"
    /\ chat' = IF how = "ok"
               THEN [chat EXCEPT !.messages = @ + 1, !.calls[id] = "awaitRead"]
               ELSE catchFinally(chat, id)
    /\ UNCHANGED otherThanChat

\* reader.read() of invocation id delivers a chunk with a `finish` line:
\* setIsLoading(false), and the reading goes on (the break leaves the for
\* loop over the lines only).  A chunk of text-delta lines, of lines of
\* another format or of unparsable lines changes the message text alone.
ReadFinish(id) ==
    /\ id \in 1..Len(chat.calls)
    /\ chat.calls[id] = "awaitRead"
    /\ chat' = [chat EXCEPT !.isLoading = FALSE]
    /\ UNCHANGED otherThanChat

\* reader.read() of invocation id reports done: the loop is left and the
\* finally runs.
ReadDone(id) ==
    /\ id \in 1..Len(chat.calls)
    /\ chat.calls[id] = "awaitRead"
    /\ chat' = [chat EXCEPT !.abortControllerRef = 0, !.calls[id] = "returned"]
    /\ UNCHANGED otherThanChat

\* reader.read() of invocation id rejects (the connection broke).
ReadRejects(id) ==
    /\ id \in 1..Len(chat.calls)
    /\ chat.calls[id] = "awaitRead"
    /\ chat' = catchFinally(chat, id)
    /\ UNCHANGED otherThanChat

\* stop(): the controller held is aborted, so the await of its invocation
\* rejects with an AbortError and its catch and finally run before the next
\* event; setIsLoading(false) in any case.
stop ==
    /\ chat' = IF chat.abortControllerRef # 0
               THEN catchFinally(chat, chat.abortControllerRef)
               ELSE [chat EXCEPT !.isLoading = FALSE]
    /\ UNCHANGED otherThanChat

ChatNext ==
    \/ \E value \in Inputs : handleInputChange(value)
    \/ handleSubmit
    \/ \E id \in 1..MaxSubmits, how \in FetchOutcomes : FetchSettles(id, how)
    \/ \E id \in 1..MaxSubmits : ReadFinish(id)
    \/ \E id \in 1..MaxSubmits : ReadDone(id)
    \/ \E id \in 1..MaxSubmits : ReadRejects(id)
    \/ stop

ChatSpec == Init /\ [][ChatNext]_vars

\* The network answers every fetch and every stream comes to an end; what the
\* user does (typing, submitting, stop()) is under no obligation.
ChatFairSpec ==
    /\ ChatSpec
    /\ WF_vars(\E id \in 1..MaxSubmits, how \in FetchOutcomes : FetchSettles(id, how))
    /\ WF_vars(\E id \in 1..MaxSubmits : ReadDone(id) \/ ReadRejects(id))

\* ----------------------------------------------------- handleGeminiQuery
otherThanGemini == <<clientVars, util, chat>>

\* The requestId argument: absent, empty, or a session's.
RequestIds == {"undefined", "", "s1"}

\* requestId || 'default'
identifierOf(requestId) == IF requestId \in {"undefined", ""} THEN "default" ELSE requestId

\* The ways the upstream request ends: candidates[0].content.parts[0] with its
\* text, or anything that throws (non-2xx, invalid body, rejected fetch).
UpstreamOutcomes == {"text", "failed"}

\* A faulty checkRateLimit(): `>` where the code has `>=`.
checkRateLimit_OffByOne(map, identifier, t) ==
    LET userRateLimit == mapGet(map, identifier, NoWindow) IN
    IF userRateLimit = NoWindow \/ t > userRateLimit.resetTime
    THEN [ok |-> TRUE, created |-> TRUE,
          map |-> mapSet(map, identifier,
                         [requests |-> 1, resetTime |-> t + RATE_LIMIT_WINDOW])]
    ELSE IF userRateLimit.requests > RATE_LIMIT
    THEN [ok |-> FALSE, created |-> FALSE, map |-> map]
    ELSE [ok |-> TRUE, created |-> FALSE,
          map |-> [map EXCEPT ![identifier].requests = @ + 1]]

\* checkRateLimit(identifier): its answer, the rateLimitMap it leaves, and
\* whether it created a window.
checkRateLimit(map, identifier, t) ==
    LET userRateLimit == mapGet(map, identifier, NoWindow) IN
    IF userRateLimit = NoWindow \/ t > userRateLimit.resetTime
    THEN [ok |-> TRUE, created |-> TRUE,
          map |-> mapSet(map, identifier,
                         [requests |-> 1, resetTime |-> t + RATE_LIMIT_WINDOW])]
    ELSE IF userRateLimit.requests >= RATE_LIMIT
    THEN [ok |-> FALSE, created |-> FALSE, map |-> map]
    ELSE [ok |-> TRUE, created |-> FALSE,
          map |-> [map EXCEPT ![identifier].requests = @ + 1]]

\* getCachedResponse(query): its return value ...
getCachedResponse(c, query, t) ==
    LET cached == mapGet(c, query, NoCached) IN
    IF cached = NoCached THEN "null"
    ELSE IF t - cached.timestamp > CACHE_TTL THEN "null"
    ELSE cached.response

\* ... and the geminiCache it leaves.
getCachedResponseDeletes(c, query, t) ==
    LET cached == mapGet(c, query, NoCached) IN
    IF cached # NoCached /\ t - cached.timestamp > CACHE_TTL
    THEN mapDelete(c, query)
    ELSE c

\* cacheResponse(query, response)
cacheResponse(c, query, response, t) ==
    LET old == {q \in DOMAIN c : t - c[q].timestamp > CACHE_TTL}
        cleaned == IF Cardinality(DOMAIN c) > CleanupSize
                   THEN [q \in DOMAIN c \ old |-> c[q]]
                   ELSE c
    IN  mapSet(cleaned, query, [response |-> response, timestamp |-> t])

\* handleGeminiQuery(query, requestId) up to `await fetch(...)`; apiKey is
\* whether process.env.GOOGLE_GEMINI_API_KEY is set when the call reads it.
handleGeminiQuery(query, requestId, apiKey) ==
    LET t == gemini.now
        cachedResponse == getCachedResponse(gemini.geminiCache, query, t)
        afterGet == getCachedResponseDeletes(gemini.geminiCache, query, t)
        identifier == identifierOf(requestId)
        check == checkRateLimit(gemini.rateLimitMap, identifier, t)
        before == IF check.created THEN 0 ELSE mapGet(gemini.issued, identifier, 0)
    IN
    /\ BagCardinality(gemini.pending) < MaxCalls
    /\ gemini' =
          IF cachedResponse \notin {"null", ""}
          THEN [gemini EXCEPT !.geminiCache = afterGet,
                              !.last = [identifier |-> identifier, answer |-> "cache"]]
          ELSE IF ~check.ok
          THEN [gemini EXCEPT !.geminiCache = afterGet,
                              !.last = [identifier |-> identifier, answer |-> "limited"]]
          ELSE IF ~apiKey
          THEN [gemini EXCEPT !.geminiCache = afterGet,
                              !.rateLimitMap = check.map,
                              !.issued = mapSet(@, identifier, before),
                              !.last = [identifier |-> identifier, answer |-> "apology"]]
          ELSE [gemini EXCEPT !.geminiCache = afterGet,
                              !.rateLimitMap = check.map,
                              !.issued = mapSet(@, identifier, before + 1),
                              !.pending = @ (+) SetToBag({query}),
                              !.last = [identifier |-> identifier, answer |-> "fetch"]]
    /\ UNCHANGED otherThanGemini

\* The upstream request for query settles: a text is cached and returned,
\* anything else ends in the apology.
UpstreamSettles(query, how) ==
    /\ BagIn(query, gemini.pending)
    /\ gemini' =
          [gemini EXCEPT
              !.pending = @ (-) SetToBag({query}),
              !.geminiCache =
                  IF how = "failed" THEN @
                  ELSE cacheResponse(@, query, "answer", gemini.now),
              !.last = [identifier |-> "none",
                        answer |-> IF how = "failed" THEN "apology" ELSE "text"]]
    /\ UNCHANGED otherThanGemini

\* The clock of the module advances.
GeminiTick ==
    /\ gemini.now < MaxTime
    /\ gemini' = [gemini EXCEPT !.now = @ + 1, !.last = NoAnswer]
    /\ UNCHANGED otherThanGemini

GeminiNext ==
    \/ \E query \in GeminiQueries, requestId \in RequestIds, apiKey \in BOOLEAN :
          handleGeminiQuery(query, requestId, apiKey)
    \/ \E query \in GeminiQueries, how \in UpstreamOutcomes : UpstreamSettles(query, how)
    \/ GeminiTick

GeminiSpec == Init /\ [][GeminiNext]_vars

\* ================================================================ claims
\* The timestamps of reqs inside the window at time t.
InWindow(reqs, t) == Cardinality({i \in 1..Len(reqs) : t - reqs[i] < windowMs})

\* The connection is ready: ensureConnected() returns at once and
\* Transport.request() finds its session.
Ready == connected /\ transport # NoTransport /\ sessionId

IsError(o) == o.kind \notin {"none", "ok"}

Initiators == {i \in 1..Len(waiters) : waiters[i].at = "awaitInit"}

C2_AttemptCleared == microq = <<>> => connecting \in {"null", "pending"}

\* C3: getWalletBalance(a) has just returned from the wire on a ready
\* connection; the same call made again at once is answered from the cache and
\* sends no POST.
C3_RepeatedReadNotDispatched ==
    [][\A a \in Addrs :
         LET r == [op |-> "get_balance", arg |-> a] IN
         (Ready /\ outcome = [of |-> r, result |-> Ok("obj", "wire")] /\ Call(r))
            => (inflight' = inflight /\ outcome'.result = Ok("obj", "cache"))]_vars

\* C4: a call of a mutating method leaves the cache as it is and is not answered
\* from it; made on a ready connection with quota left, it sends its own POST;
\* and the step in which a mutating call returns or throws, the completion of
\* its POST included, leaves the cache as it is.
C4_MutationsBypassCache ==
    /\ [][\A r \in MutatingRequests :
            Call(r) =>
               /\ cache' = cache
               /\ outcome'.result.msg # "cache"
               /\ (Ready /\ InWindow(requests, now) < maxRequestsPerMinute)
                     => BagCardinality(inflight') = BagCardinality(inflight) + 1]_vars
    /\ [][outcome'.of.op = "mutating" =>
            (cache' = cache /\ outcome'.result.msg # "cache")]_vars

\* A mutating call has returned from the wire while the cache holds an entry
\* under its address.
C4_Witness ==
    /\ outcome.of.op = "mutating"
    /\ outcome.result = Ok("obj", "wire")
    /\ cache[outcome.of.arg] # NoEntry

\* C5: for every key holding an entry, a lookup less than cacheTTL after the
\* store returns the stored value, and one more than cacheTTL after it misses
\* and deletes the entry; makeRequest() with that key does so; and a key without
\* an entry gets one only by a store, stamped with the time of the store.
C5_CacheTTL ==
    /\ [](\A k \in Keys :
            cache[k] # NoEntry =>
               /\ now - cache[k].timestamp < cacheTTL
                     => getCachedData(cache, k, now) = cache[k].data
               /\ now - cache[k].timestamp > cacheTTL
                     => /\ getCachedData(cache, k, now) = "null"
                        /\ getCachedDataDeletes(cache, k, now)[k] = NoEntry)
    /\ [][\A r \in ReadRequests :
            (cache[r.arg] # NoEntry /\ KeyedCall(r)) =>
               /\ (now - cache[r.arg].timestamp < cacheTTL /\ Truthy(cache[r.arg].data))
                     => outcome' = [of |-> r, result |-> Ok(cache[r.arg].data, "cache")]
               /\ now - cache[r.arg].timestamp > cacheTTL
                     => (cache'[r.arg] = NoEntry /\ outcome'.result.msg # "cache")]_vars
    /\ [][\A k \in Keys :
            (cache[k] = NoEntry /\ cache'[k] # NoEntry) =>
               /\ cache'[k].timestamp = now
               /\ \E c \in InflightCalls, rsp \in Responses : c.key = k /\ Respond(c, rsp)]_vars

\* An entry stored more than cacheTTL ago is still in the map.
C5_Witness == \E k \in Keys : cache[k] # NoEntry /\ now - cache[k].timestamp > cacheTTL

\* C6: a call made with `quota` timestamps inside the window is rejected; a call
\* made when every recorded timestamp has left the window is admitted, and its
\* timestamp is then the only one.
C6_RateLimiterWindow ==
    [][\A r \in Requests :
         /\ (InWindow(requests, now) = maxRequestsPerMinute /\ Call(r))
               => outcome'.result = Err("MCPRequestError", "rateLimit", 0)
         /\ (requests # <<>> /\ InWindow(requests, now) = 0 /\ Call(r))
               => (outcome'.result.msg # "rateLimit" /\ requests' = <<now>>)]_vars

\* A call was rejected with the window full.
C6_Witness ==
    /\ outcome.result.msg = "rateLimit"
    /\ InWindow(requests, now) = maxRequestsPerMinute

\* C7: getWalletBalance(a) has just returned from the wire on a ready
\* connection; the same call made again at once takes no slot of the rate
\* window and sends no POST.
C7_CacheHitTakesNoSlot ==
    [][\A a \in Addrs :
         LET r == [op |-> "get_balance", arg |-> a] IN
         (Ready /\ outcome = [of |-> r, result |-> Ok("obj", "wire")] /\ Call(r))
            => (requests' = requests /\ inflight' = inflight)]_vars

\* C8: a call made with the window full throws MCPRequestError and does nothing
\* else: no connection attempt, no POST, no timestamp added, cache as it was.
C8_RejectionHasNoEffect ==
    [][\A r \in Requests :
         (InWindow(requests, now) >= maxRequestsPerMinute /\ Call(r)) =>
            /\ outcome' = [of |-> r, result |-> Err("MCPRequestError", "rateLimit", 0)]
            /\ UNCHANGED <<transport, connected, connecting, sessionId, probing, waiters,
                           microq, inflight, cache>>
            /\ Len(requests') <= Len(requests)
            /\ InWindow(requests', now) = InWindow(requests, now)]_vars

\* A call was rejected on a client that is neither connected nor connecting.
C8_Witness ==
    /\ outcome.result = Err("MCPRequestError", "rateLimit", 0)
    /\ ~Ready
    /\ ~probing

\* C9: the step in which a call ends in an error stores nothing: every key
\* keeps its entry, except that the call's own lookup may have deleted an entry
\* that had expired.
C9_FailuresNotCached ==
    [][IsError(outcome'.result) =>
         \A k \in Keys :
            \/ cache'[k] = cache[k]
            \/ /\ cache'[k] = NoEntry
               /\ now - cache[k].timestamp > cacheTTL]_vars

\* A POST has failed while the cache holds an entry.
C9_Witness ==
    /\ outcome.result.kind = "MCPRequestError"
    /\ outcome.result.msg \in {"status", "rpcError", "network"}
    /\ \E k \in Keys : cache[k] # NoEntry

\* C10: whatever a public method throws is an MCPConnectionError, an
\* MCPRequestError or an MCPTimeoutError.
C10_TypedFailures ==
    outcome.result.kind \in {"none", "ok", "MCPConnectionError", "MCPRequestError",
                             "MCPTimeoutError"}

\* C11: Transport.request gives each response one result: a non-2xx status an
\* MCPRequestError with that status code, a 2xx body with an `error` field an
\* MCPRequestError with the server's message, a failed fetch an
\* MCPRequestError, any other body its `result` field as it is; and that is
\* what the caller of the call whose POST completes receives.
C11_TransportResultMapping ==
    /\ [](\A r \in Responses :
            /\ r.kind = "status" =>
                  /\ TransportResult(r).kind = "MCPRequestError"
                  /\ TransportResult(r).statusCode = r.code
            /\ r.kind = "rpcError" =>
                  /\ TransportResult(r).kind = "MCPRequestError"
                  /\ r.text # "" => TransportResult(r).text = r.text
            /\ r.kind = "network" => TransportResult(r).kind = "MCPRequestError"
            /\ r.kind = "result" => TransportResult(r) = Ok(r.data, "wire"))
    /\ [][BagCardinality(inflight') < BagCardinality(inflight) =>
            \E r \in Responses : outcome'.result = TransportResult(r)]_vars

\* A POST was answered with HTTP 500 and its caller holds the error.
C11_Witness ==
    /\ outcome.result.kind = "MCPRequestError"
    /\ outcome.result.msg = "status"
    /\ outcome.result.statusCode = 500

\* C12: when GET /health fails, the client is left without transport, without
\* session and not connected, and each call resumed from that attempt, the one
\* that started it first, throws MCPConnectionError and sends no POST.
C12_ProbeFailure ==
    /\ [][(probing /\ connecting' = "rejected") =>
            (transport' = NoTransport /\ ~sessionId' /\ ~connected'
             /\ inflight' = inflight)]_vars
    /\ [][(microq # <<>> /\ Head(microq).result = "rejected" /\ microq' = Tail(microq)) =>
            /\ outcome' = [of |-> Head(microq).call.req,
                           result |-> Err("MCPConnectionError", "health", 0)]
            /\ inflight' = inflight
            /\ transport' = NoTransport /\ ~sessionId' /\ ~connected']_vars

\* The call that started the failed attempt has thrown its MCPConnectionError
\* and the client is unready.
C12_Witness ==
    /\ outcome.result = Err("MCPConnectionError", "health", 0)
    /\ transport = NoTransport
    /\ ~connected
    /\ inflight = EmptyBag

\* C13: no call is pending past its deadline.  Every call in progress recorded
\* its timestamp when it was admitted, and a timestamp leaves the rate window
\* only when older than the window, which is longer than the timeout: so when
\* every timestamp still recorded is older than the timeout, every call in
\* progress is past its deadline and has thrown MCPTimeoutError.
C13_NoCallPastDeadline ==
    (\A i \in 1..Len(requests) : now - requests[i] > timeout) => InProgress = 0

\* C14: getWalletTransactions, getTokenFlows and getNFTHistory throw at once in
\* every state and touch nothing: no connection attempt, no POST, no timestamp
\* in the rate window, cache as it was.
C14_UnsupportedFailFast ==
    [][\A op \in UnsupportedOps :
         Unsupported(op) =>
            /\ IsError(outcome'.result)
            /\ outcome'.of = Shape([op |-> op, arg |-> "A"])
            /\ UNCHANGED <<transport, connected, connecting, sessionId, probing, waiters,
                           microq, inflight, cache, requests>>]_vars

\* An unsupported method has thrown while a POST is on the wire and the cache
\* holds an entry.
C14_Witness ==
    /\ outcome.of.op = "unsupported"
    /\ IsError(outcome.result)
    /\ inflight # EmptyBag
    /\ \E k \in Keys : cache[k] # NoEntry

\* C15: close() leaves the client with no connection attempt tracked, no
\* transport and no session, not connected, and with an empty cache.
C15_CloseResets ==
    [][Close =>
         /\ connecting' = "null"
         /\ transport' = NoTransport
         /\ ~sessionId'
         /\ ~connected'
         /\ cache' = EmptyCache]_vars

\* C16, as stated: isRecoverableError answers true for every
\* MCPConnectionError and MCPTimeoutError and for the rate-limit rejection,
\* and false for every other error, the MCPRequestError of a non-2xx status or
\* of a JSON-RPC error included.
C16_AsStated ==
    util.fn = "isRecoverableError" =>
       util.output = \/ util.input.kind \in {"MCPConnectionError", "MCPTimeoutError"}
                     \/ /\ util.input.kind = "MCPRequestError"
                        /\ util.input.msg = "rateLimit"

\* C16, amended: isRecoverableError answers true for every MCPConnectionError
\* and MCPTimeoutError; for an MCPRequestError exactly when its message, in
\* lower case, contains "rate limit", "temporary" or "timeout", as the
\* rate-limit rejection's does, the one of HTTP 504 Gateway Timeout does and
\* the one of HTTP 500 Internal Server Error does not; and false otherwise.
C16_Recoverability ==
    util.fn = "isRecoverableError" =>
       LET e == util.input IN
       /\ e.kind \in {"MCPConnectionError", "MCPTimeoutError"} => util.output = TRUE
       /\ e.kind = "MCPRequestError" =>
             util.output = \/ e.msg = "rateLimit"
                           \/ e.text \in {"Gateway Timeout", "temporary outage"}
       /\ e.kind \notin {"MCPConnectionError", "MCPTimeoutError", "MCPRequestError"}
             => util.output = FALSE

\* The rate-limit rejection has been classified recoverable.
C16_Witness ==
    /\ util.fn = "isRecoverableError"
    /\ util.input = Err("MCPRequestError", "rateLimit", 0)
    /\ util.output = TRUE

\* C17: extractWalletAddress tries the 0x pattern first and the sei1 pattern
\* second: it returns the first 0x address of the query if there is one, else
\* the first sei1 address, else null.
C17_HexPatternFirst ==
    util.fn = "extractWalletAddress" =>
       LET query == util.input
           evm == {i \in 1..Len(query) : wordMatch(query[i], evmPattern) # "null"}
           sei == {i \in 1..Len(query) : wordMatch(query[i], seiPattern) # "null"}
           first(hits) == query[CHOOSE i \in hits : \A j \in hits : i <= j]
       IN  util.output = IF evm # {} THEN first(evm)
                         ELSE IF sei # {} THEN first(sei)
                         ELSE "null"

\* The keywords of kws that the query last classified contains, in any case.
QueryHas(kws) == \E keyword \in kws : queryIncludes(util.input, keyword)

SymbolMentioned == QueryHas({"usdc", "sei", "weth", "$"})

WalletGroup == QueryHas({"wallet", "balance", "holdings"})

TokenFlowGroup ==
    \/ QueryHas({"token"}) /\ QueryHas({"flow", "trading", "movements"})
    \/ QueryHas({"flow", "movements", "inflow", "outflow"}) /\ SymbolMentioned
    \/ QueryHas({"dragonswap", "astroport", "dex"}) /\ SymbolMentioned

NftGroup == QueryHas({"nft", "collection", "#"})

TransactionGroup == QueryHas({"transaction", "tx", "0x"})

\* C18: classifyIntent answers with the label of the highest-priority keyword
\* group the query contains, in the order wallet > token-flow > NFT >
\* transaction, and with "general" when it contains none.  The token-flow group
\* is present when "token" comes with a flow word, or a token symbol comes with
\* a flow word or a DEX name.
C18_IntentPriority ==
    util.fn = "classifyIntent" =>
       /\ WalletGroup => util.output = "wallet_analysis"
       /\ ~WalletGroup /\ TokenFlowGroup => util.output = "token_flow"
       /\ ~WalletGroup /\ ~TokenFlowGroup /\ NftGroup => util.output = "nft_history"
       /\ ~WalletGroup /\ ~TokenFlowGroup /\ ~NftGroup /\ TransactionGroup
             => util.output = "transaction_explain"
       /\ ~WalletGroup /\ ~TokenFlowGroup /\ ~NftGroup /\ ~TransactionGroup
             => util.output = "general"

\* A query with the wallet, the NFT and the transaction group all present has
\* been classified as a wallet analysis.
C18_Witness ==
    /\ util.fn = "classifyIntent"
    /\ WalletGroup /\ NftGroup /\ TransactionGroup
    /\ util.output = "wallet_analysis"

\* C19: rate-limit usage is recorded only after ensureConnected() has returned
\* successfully: the step of a call that has to await a connection attempt (its
\* own or one it joins) adds no timestamp to the rate window, so a call that
\* fails to connect consumes no slot.
C19_RecordedAfterConnect ==
    [][\A r \in Requests :
         (ensureConnected(connected, transport, connecting) # "ready" /\ Call(r))
            => Len(requests') <= Len(requests)]_vars

\* The connection state of the client, read off its fields: connected by the
\* test ensureConnected() and makeRequest() apply (this.connected &&
\* this.transport), connecting while GET /health is outstanding.
ConnectionState ==
    IF connected /\ transport # NoTransport THEN "connected"
    ELSE IF probing THEN "connecting"
    ELSE "disconnected"

\* C20: the connection state changes only from disconnected to connecting,
\* from connecting to connected or to disconnected, and from connected to
\* disconnected.
C20_Transitions ==
    [][\/ ConnectionState' = ConnectionState
       \/ <<ConnectionState, ConnectionState'>> \in
             {<<"disconnected", "connecting">>,
              <<"connecting", "connected">>,
              <<"connecting", "disconnected">>,
              <<"connected", "disconnected">>}]_vars

\* C21: the client retries nothing.  A probe is started only by the step that
\* issues a call; no call goes back to awaiting a connection; a POST is sent
\* only by a call just issued or just resumed from its connection await, one
\* at a time; a POST that completes ends its call; and a call that fails
\* starts neither a probe nor a POST.
C21_NoAutomaticRetry ==
    [][/\ (probing' /\ ~probing) => InProgress' = InProgress + 1
       /\ Len(waiters') > Len(waiters) => InProgress' = InProgress + 1
       /\ BagCardinality(inflight') > BagCardinality(inflight) =>
             /\ BagCardinality(inflight') = BagCardinality(inflight) + 1
             /\ \/ InProgress' = InProgress + 1
                \/ Len(microq') = Len(microq) - 1
       /\ (inflight' # inflight /\ BagCardinality(inflight') <= BagCardinality(inflight)) =>
             /\ BagCardinality(inflight') = BagCardinality(inflight) - 1
             /\ outcome'.result.kind # "none"
       /\ IsError(outcome'.result) =>
             /\ probing' => probing
             /\ BagCardinality(inflight') <= BagCardinality(inflight)]_vars

\* A call has failed on its POST (the network failed) and nothing is left in
\* progress: no probe, no POST, no call waiting.
C21_Witness ==
    /\ outcome.result.msg = "network"
    /\ InProgress = 0
    /\ ~probing

\* C22: a POST goes on the wire only from a transport the client holds, that
\* has a session and that the client has marked connected, and, for a call that
\* awaited a connection attempt, only after the attempt resolved.  A call that
\* reaches Transport.request() on a transport without a session fails with
\* MCPConnectionError and sends nothing, and so does a call whose
\* ensureConnected() threw.
C22_NoRequestBeforeConnect ==
    [][/\ BagCardinality(inflight') > BagCardinality(inflight) =>
             /\ Ready
             /\ microq # <<>> => Head(microq).result = "resolved"
       /\ outcome'.result.msg = "notConnected" =>
             /\ outcome'.result.kind = "MCPConnectionError"
             /\ ~sessionId
             /\ inflight' = inflight
       /\ (microq # <<>> /\ Head(microq).result = "rejected") =>
             /\ IsError(outcome'.result)
             /\ inflight' = inflight]_vars

\* A call has reached Transport.request() on a transport whose probe has not
\* been answered yet, and has failed there while that probe is outstanding.
C22_Witness ==
    /\ outcome.result.msg = "notConnected"
    /\ transport # NoTransport
    /\ probing
    /\ inflight = EmptyBag

\* C23: the error a caller gets is the one the transport raised, as it was
\* raised: for a POST that fails, the MCPRequestError of Transport.request()
\* for that response, with its message and status code; for a call resumed
\* from a failed probe, the MCPConnectionError of Transport.connect(); for a
\* call that finds the transport without a session, the MCPConnectionError of
\* Transport.request().
C23_ErrorsUnchanged ==
    [][/\ (BagCardinality(inflight') < BagCardinality(inflight)
              /\ IsError(outcome'.result)) =>
             \E r \in Responses : /\ r.kind # "result"
                                  /\ outcome'.result = TransportResult(r)
       /\ (microq # <<>> /\ Head(microq).result = "rejected") =>
             outcome'.result = Err("MCPConnectionError", "health", 0)
       /\ (~sessionId /\ connected /\ transport # NoTransport
              /\ inflight' = inflight
              /\ (microq # <<>> => Head(microq).result = "resolved")
              /\ IsError(outcome'.result) /\ outcome'.of.op # "unsupported"
              /\ outcome'.result.msg # "rateLimit") =>
             outcome'.result = Err("MCPConnectionError", "notConnected", 0)]_vars

\* A POST was answered with HTTP 504 and its caller holds the transport's
\* error, status code and status text included.
C23_Witness ==
    outcome.result = ErrOf("MCPRequestError", "status", 504, "Gateway Timeout")

\* C24: Transport.close() called once or several times in a row, on a
\* transport with or without a session, leaves the transport without a
\* session, the state one call leaves; close() has no throw statement, so
\* every application returns.
C24_CloseIdempotent ==
    util.fn = "close" =>
       /\ util.output = FALSE
       /\ util.output = transportClose(util.input.session)

\* close() has been called three times in a row on a transport with a session.
C24_Witness ==
    /\ util.fn = "close"
    /\ util.input = [session |-> TRUE, times |-> 3]
    /\ util.output = FALSE

\* C25: a call that returns has the `result` field of a success response: the
\* value undefined, which a 2xx body with neither `error` nor `result` yields,
\* is never returned as a success and never stored in the cache.
C25_SuccessCarriesResult ==
    /\ outcome.result.kind = "ok" => outcome.result.data # "undefined"
    /\ \A k \in Keys : cache[k].data # "undefined"

\* C26: whenever the client is marked connected it holds a transport, and that
\* transport has a session.
C26_ConnectedHasSession ==
    connected => (transport # NoTransport /\ sessionId)

\* C27: no window of windowMs holds more recorded admissions than the quota,
\* however the calls interleave; and the step that admits a call is the step
\* that records it.
C27_QuotaUnderConcurrency ==
    /\ [](\A t \in 0..MaxTime :
            Cardinality({i \in 1..Len(requests) :
                            requests[i] <= t /\ t - requests[i] < windowMs})
               <= maxRequestsPerMinute)
    /\ [][\A r \in Requests :
            (canMakeRequest(requests, now) /\ Call(r))
               => requests' = Append(Prune(requests, now), now)]_vars

\* Calls issued at the same instant have taken every slot of the window and
\* are all still in progress.
C27_Witness ==
    /\ Len(requests) = maxRequestsPerMinute
    /\ \A i \in 1..Len(requests) : requests[i] = now
    /\ InProgress = maxRequestsPerMinute

\* C28: makeRequest called with a cache key that has an unexpired entry returns
\* the stored value, whatever it is (0 as well as an object), sends no POST
\* and takes no slot of the rate window.
C28_FalsyValuesServedFromCache ==
    [][\A r \in ReadRequests :
         (/\ cache[r.arg] # NoEntry
          /\ cache[r.arg].data # "undefined"
          /\ ~isExpired(cache[r.arg], now)
          /\ KeyedCall(r)) =>
            /\ outcome' = [of |-> r, result |-> Ok(cache[r.arg].data, "cache")]
            /\ inflight' = inflight
            /\ requests' = requests]_vars

\* C29: whenever the chat hook is loading it eventually stops loading,
\* whichever way the request ends.
C29_LoadingEnds == chat.isLoading ~> ~chat.isLoading

\* The upstream requests issued for identifier i since its window was created,
\* and the requests its window has counted (0 without a window), in state g of
\* the module.
Issued(g, i) == mapGet(g.issued, i, 0)

Counted(g, i) == mapGet(g.rateLimitMap, i, NoWindow).requests

\* C30: no identifier has more than RATE_LIMIT upstream requests issued since
\* its rate window was created, nor more than its window has counted; a query
\* answered from geminiCache issues no upstream request and leaves every count
\* as it was; a call made for one identifier leaves the windows and the counts
\* of the others as they were.
C30_GeminiRateLimit ==
    /\ [](\A i \in Identifiers :
            /\ Issued(gemini, i) <= RATE_LIMIT
            /\ Issued(gemini, i) <= Counted(gemini, i)
            /\ Counted(gemini, i) <= RATE_LIMIT)
    /\ [][/\ gemini'.last.answer = "cache" =>
               /\ gemini'.rateLimitMap = gemini.rateLimitMap
               /\ gemini'.issued = gemini.issued
               /\ gemini'.pending = gemini.pending
          /\ \A i \in Identifiers :
               gemini'.last.identifier = i =>
                  \A j \in Identifiers \ {i} :
                     /\ mapGet(gemini'.rateLimitMap, j, NoWindow)
                           = mapGet(gemini.rateLimitMap, j, NoWindow)
                     /\ Issued(gemini', j) = Issued(gemini, j)]_vars

\* A call of identifier s1 has been refused with RATE_LIMIT upstream requests
\* issued in its window, while the default identifier has a window of its own
\* that is not full.
C30_Witness ==
    /\ gemini.last = [identifier |-> "s1", answer |-> "limited"]
    /\ Issued(gemini, "s1") = RATE_LIMIT
    /\ "default" \in DOMAIN gemini.rateLimitMap
    /\ Counted(gemini, "default") < RATE_LIMIT
====
